---------------------------- MODULE Spec2Model ----------------------------
(***************************************************************************)
(* dev-journal: a page registry (SQLite table "pages") kept in step with   *)
(* a git working copy of markdown files, driven by process startup and by  *)
(* signed push webhooks.                                                   *)
(*                                                                         *)
(* Strings are sequences of one-character strings, so that the suffix,     *)
(* prefix and case operations of the code are computed and not assumed.    *)
(***************************************************************************)
EXTENDS Integers, Sequences, FiniteSets, Bags, TLC

VARIABLES
    registry,   \* the rows of table pages (persistent, survives restarts)
    dbCall,     \* the call just made on the registry through its API, and its result
                \* (none once an HTTP request has been answered since)
    hist,       \* per path, of the calls made through the registry's API: how many UpsertPage
                \* calls succeeded, the title of the first, whether a toggle succeeded, how many
                \* increments succeeded, whether the number of toggles is odd
    tree,       \* regular files of the working copy (cfg.ContentPath), as relative paths
    cloned,     \* whether the content directory exists
    head,       \* index of the remote repository's head commit in RemoteHistory
    phase,      \* position of main: "clone", "sync", "serving", "dead"
    ops,        \* the goroutines started by handleWebhook, in order of creation
    resp,       \* the HTTP response just written: handler, request, status, goroutine
                \* started, path looked up in the registry (none once the registry has been
                \* called directly since)
    last,       \* the commit of the last pull that succeeded, the files the last finished walk
                \* found, the git command of the last startup
    restarts,   \* how many times the process has been started again
    pending,    \* the goroutines `go s.db.IncrementVisitCount(page.Path)` that have not run
                \* yet, a bag
    cfg         \* the configuration config.Load returned to main

vars == <<registry, dbCall, hist, tree, cloned, head, phase, ops, resp, last, restarts, pending, cfg>>

-----------------------------------------------------------------------------
(* Bounds of the model *)

MaxVisits == 2
MaxOps == 2
MaxDelivered == 1
MaxRestarts == 1

-----------------------------------------------------------------------------
(* Strings *)

LowerLetters == <<"a","b","c","d","e","f","g","h","i","j","k","l","m",
                  "n","o","p","q","r","s","t","u","v","w","x","y","z">>
UpperLetters == <<"A","B","C","D","E","F","G","H","I","J","K","L","M",
                  "N","O","P","Q","R","S","T","U","V","W","X","Y","Z">>
Digits == <<"0","1","2","3","4","5","6","7","8","9">>

InSeq(c, s) == \E i \in 1..Len(s) : s[i] = c
IndexIn(c, s) == CHOOSE i \in 1..Len(s) : s[i] = c

\* strings.HasSuffix, strings.HasPrefix, strings.TrimSuffix
HasSuffix(s, suf) ==
    /\ Len(s) >= Len(suf)
    /\ SubSeq(s, Len(s) - Len(suf) + 1, Len(s)) = suf
HasPrefix(s, pre) ==
    /\ Len(s) >= Len(pre)
    /\ SubSeq(s, 1, Len(pre)) = pre
TrimSuffix(s, suf) ==
    IF HasSuffix(s, suf) THEN SubSeq(s, 1, Len(s) - Len(suf)) ELSE s

\* strings.ReplaceAll for a one-character pattern
ReplaceAll(s, old, new) == [i \in 1..Len(s) |-> IF s[i] = old THEN new ELSE s[i]]

\* filepath.Ext: the suffix starting at the last dot of the last path element
Ext(path) ==
    LET dots == {i \in 1..Len(path) :
                    /\ path[i] = "."
                    /\ \A j \in i..Len(path) : path[j] # "/"
                    /\ \A j \in (i+1)..Len(path) : path[j] # "."}
    IN IF dots = {} THEN <<>>
       ELSE LET i == CHOOSE d \in dots : TRUE IN SubSeq(path, i, Len(path))

\* filepath.Base: the last element of the path, trailing slashes removed
RECURSIVE StripTrailingSlashes(_)
StripTrailingSlashes(s) ==
    IF Len(s) > 0 /\ s[Len(s)] = "/"
    THEN StripTrailingSlashes(SubSeq(s, 1, Len(s) - 1))
    ELSE s
Base(path) ==
    IF path = <<>> THEN <<".">>
    ELSE LET p == StripTrailingSlashes(path)
             slashes == {i \in 1..Len(p) : p[i] = "/"}
             cut == IF slashes = {} THEN 0
                    ELSE CHOOSE i \in slashes : \A j \in slashes : j <= i
         IN IF p = <<>> THEN <<"/">> ELSE SubSeq(p, cut + 1, Len(p))

\* path.Dir restricted to relative slash paths: <<>> for a file at the root
DirOf(path) ==
    LET slashes == {i \in 1..Len(path) : path[i] = "/"}
    IN IF slashes = {} THEN <<>>
       ELSE SubSeq(path, 1, (CHOOSE i \in slashes : \A j \in slashes : j <= i) - 1)

\* strings.Title: upper-case the first letter of every word; letters, digits
\* and the underscore continue a word, anything else separates words
IsWordChar(c) == InSeq(c, LowerLetters) \/ InSeq(c, UpperLetters) \/ InSeq(c, Digits) \/ c = "_"
ToUpper(c) == IF InSeq(c, LowerLetters) THEN UpperLetters[IndexIn(c, LowerLetters)] ELSE c
TitleFirstOnly(s) ==
    [i \in 1..Len(s) |-> IF i = 1 THEN ToUpper(s[i]) ELSE s[i]]
Title(s) ==
    [i \in 1..Len(s) |->
        IF i = 1 \/ ~IsWordChar(s[i-1]) THEN ToUpper(s[i]) ELSE s[i]]

DotMd == <<".", "m", "d">>

\* the byte order of the characters used, as SQLite's BINARY collation and
\* os.ReadDir compare them
CharOrder == <<" ", "-", ".", "/">> \o Digits \o UpperLetters \o <<"_">> \o LowerLetters
RECURSIVE LessStr(_, _)
LessStr(a, b) ==
    IF b = <<>> THEN FALSE
    ELSE IF a = <<>> THEN TRUE
    ELSE IF a[1] = b[1] THEN LessStr(Tail(a), Tail(b))
    ELSE IndexIn(a[1], CharOrder) < IndexIn(b[1], CharOrder)

\* The files a commit of the content repository may hold
HomeMd == <<"h","o","m","e",".","m","d">>
BlogPostMd == <<"b","l","o","g","/","p","o","s","t",".","m","d">>
NotesTxt == <<"n","o","t","e","s",".","t","x","t">>
\* a file in a directory whose own name ends in .md
OldMdDir == <<"o","l","d",".","m","d">>
ArchivedTxt == OldMdDir \o <<"/","a",".","t","x","t">>
BlogDir == <<"b","l","o","g">>
\* further Markdown files of a content repository
BlogHomeMd == BlogDir \o <<"/","h","o","m","e",".","m","d">>
MyFirstPostMd == BlogDir \o <<"/","m","y","-","f","i","r","s","t","-","p","o","s","t",".","m","d">>
ImgMyNotesMd == <<"i","m","g","/","m","y","_","n","o","t","e","s",".","m","d">>
Files == {HomeMd, BlogPostMd, NotesTxt, ArchivedTxt}

-----------------------------------------------------------------------------
(* Page registry: database.go *)

\* pathToTitle
pathToTitle(path) ==
    LET noext == TrimSuffix(path, Ext(path))
        base == Base(noext)
        dashes == ReplaceAll(base, "-", " ")
        unders == ReplaceAll(dashes, "_", " ")
    IN Title(unders)

\* a row as INSERT INTO pages (path, title) creates it, the other columns
\* from the schema's defaults
NewRow(path, title) ==
    [path |-> path, title |-> title, is_visible |-> TRUE, visit_count |-> 0]

HasRow(reg, path) == \E r \in reg : r.path = path
RowsOf(reg, path) == {r \in reg : r.path = path}

\* INSERT INTO pages (path, title) VALUES (?, ?) without a conflict clause
InsertRowAlways(reg, path, title) == reg \cup {NewRow(path, title)}
\* INSERT OR REPLACE INTO pages (path, title) VALUES (?, ?)
InsertRowReplace(reg, path, title) == (reg \ RowsOf(reg, path)) \cup {NewRow(path, title)}
\* INSERT INTO pages (path, title) VALUES (?, ?) ON CONFLICT(path) DO NOTHING
InsertRow(reg, path, title) ==
    IF HasRow(reg, path) THEN reg ELSE reg \cup {NewRow(path, title)}

\* UpsertPage: the registry after the call and the error it returns;
\* dbok is whether db.Exec succeeded
UpsertPage(reg, path, dbok) ==
    IF dbok
    THEN [reg |-> InsertRow(reg, path, pathToTitle(path)), err |-> "nil"]
    ELSE [reg |-> reg, err |-> "exec"]

\* UPDATE pages SET is_visible = FALSE WHERE path = ?
ToggleSetsHidden(reg, path, dbok) ==
    IF dbok
    THEN [reg |-> {IF r.path = path THEN [r EXCEPT !.is_visible = FALSE] ELSE r : r \in reg},
          err |-> "nil"]
    ELSE [reg |-> reg, err |-> "exec"]
\* INSERT INTO pages ... ON CONFLICT(path) DO UPDATE SET is_visible = NOT is_visible
ToggleOrInsert(reg, path, dbok) ==
    IF dbok
    THEN [reg |-> IF HasRow(reg, path)
                  THEN {IF r.path = path THEN [r EXCEPT !.is_visible = ~r.is_visible] ELSE r : r \in reg}
                  ELSE reg \cup {NewRow(path, <<>>)},
          err |-> "nil"]
    ELSE [reg |-> reg, err |-> "exec"]
\* UPDATE pages SET is_visible = NOT is_visible WHERE path = ?
ToggleVisibility(reg, path, dbok) ==
    IF dbok
    THEN [reg |-> {IF r.path = path THEN [r EXCEPT !.is_visible = ~r.is_visible] ELSE r : r \in reg},
          err |-> "nil"]
    ELSE [reg |-> reg, err |-> "exec"]

\* UPDATE pages SET visit_count = visit_count + 2 WHERE path = ?
IncrementByTwo(reg, path, dbok) ==
    IF dbok
    THEN {IF r.path = path THEN [r EXCEPT !.visit_count = r.visit_count + 2] ELSE r : r \in reg}
    ELSE reg
\* UPDATE pages SET visit_count = visit_count + 1 (no WHERE clause)
IncrementEveryRow(reg, path, dbok) ==
    IF dbok
    THEN {[r EXCEPT !.visit_count = r.visit_count + 1] : r \in reg}
    ELSE reg
\* UPDATE pages SET visit_count = visit_count + 1 WHERE path = ? (the error is only logged)
IncrementVisitCount(reg, path, dbok) ==
    IF dbok
    THEN {IF r.path = path THEN [r EXCEPT !.visit_count = r.visit_count + 1] ELSE r : r \in reg}
    ELSE reg

\* GetPageByPath: the row, or sql.ErrNoRows
GetPageByPath(reg, path) ==
    IF HasRow(reg, path)
    THEN [err |-> "nil", page |-> CHOOSE r \in reg : r.path = path]
    ELSE [err |-> "norows", page |-> NewRow(<<>>, <<>>)]

\* ORDER BY path: the rows as a sequence, paths ascending
RECURSIVE SortByPath(_)
SortByPath(rows) ==
    IF rows = {} THEN <<>>
    ELSE LET m == CHOOSE r \in rows : \A q \in rows : q.path = r.path \/ LessStr(r.path, q.path)
         IN <<m>> \o SortByPath(rows \ {m})

\* GetAllPages: SELECT path, title, is_visible, visit_count FROM pages ORDER BY path
GetAllPages(reg) == SortByPath(reg)

\* SELECT ... FROM pages without the WHERE clause
AllRows(reg) == reg
\* SELECT ... FROM pages WHERE is_visible = TRUE
VisibleRows(reg) == {r \in reg : r.is_visible}

\* .md removed, any path whose last segment is "home" turned into "/"
DisplayPathByBase(path) ==
    LET p == TrimSuffix(path, DotMd)
    IN IF Base(p) = <<"h","o","m","e">> THEN <<"/">> ELSE p
\* the path GetVisiblePages hands to the navigation: .md removed, "home"
\* turned into "/"
DisplayPath(path) ==
    LET p == TrimSuffix(path, DotMd)
    IN IF p = <<"h","o","m","e">> THEN <<"/">> ELSE p

\* GetVisiblePages: path and title of the visible rows, ordered by the
\* stored path, each path rewritten for display
GetVisiblePages(reg) ==
    LET rows == SortByPath(VisibleRows(reg))
    IN [i \in 1..Len(rows) |-> [path |-> DisplayPath(rows[i].path), title |-> rows[i].title]]

-----------------------------------------------------------------------------
(* Tree reconciler: content.Sync (sync.go) *)

\* strings.HasSuffix(d.Name(), ".md")
IsMd(f) == HasSuffix(Base(f), DotMd)

\* the directories of a tree of files, and d.IsDir() for an entry
Dirs == {DirOf(f) : f \in Files} \ {<<>>}
DirExists(t, d) == \E f \in t : DirOf(f) = d
IsDir(t, e) == e \in Dirs /\ DirExists(t, e)

\* a test of the name alone
IsMarkdownName(t, e) == IsMd(e)
\* !d.IsDir() && strings.HasSuffix(d.Name(), ".md")
IsMarkdownFile(t, e) == ~IsDir(t, e) /\ IsMd(e)

\* filepath.WalkDir visits the entries of a directory in lexical order, a
\* directory's content before its next sibling
WalkOrder == <<BlogDir, BlogPostMd, HomeMd, NotesTxt, OldMdDir, ArchivedTxt>>

\* a callback that returns the error of db.UpsertPage: the walk ends there
StopWalk(i) == Len(WalkOrder) + 1
\* the callback after db.UpsertPage returned an error: the error is logged
\* and the callback returns nil, so the walk goes on with the next entry
AfterUpsertError(i) == i + 1

\* a reconciliation that also deletes the rows whose file is gone
PruneStale(reg, found) == {r \in reg : r.path \in found}
\* the walk removes nothing: Sync has no statement but the upsert
KeepStale(reg, found) == reg

\* the callback of WalkDir applied to the entries of `found` in walk order:
\* every entry that is no directory and whose name ends in .md is upserted
\* under its slash path relative to the root; a failed upsert (path in
\* `failing`) is logged and the walk goes on
RECURSIVE WalkUpserts(_, _, _, _)
WalkUpserts(reg, found, failing, i) ==
    IF i > Len(WalkOrder) THEN KeepStale(reg, found)
    ELSE LET e == WalkOrder[i]
             present == e \in found \/ IsDir(found, e)
         IN IF present /\ IsMarkdownFile(found, e)
            THEN LET r == UpsertPage(reg, e, e \notin failing)
                 IN WalkUpserts(r.reg, found, failing,
                                IF r.err = "nil" THEN i + 1 ELSE AfterUpsertError(i))
            ELSE WalkUpserts(reg, found, failing, i + 1)

\* Sync on a tree nobody else is writing: error when the root cannot be
\* read, else the registry after the walk
Sync(reg, rootExists, files, failing) ==
    IF ~rootExists
    THEN [reg |-> reg, err |-> "walk"]
    ELSE [reg |-> WalkUpserts(reg, files, failing, 1), err |-> "nil"]

-----------------------------------------------------------------------------
(* Configuration: config.Load *)

\* cfg.GithubWebhookSecret, and a secret the sender of a forged delivery may hold
Secret == "webhook-secret"
OtherSecret == "guess"

\* cfg.AdminLoginPath, the default
AdminLoginPath == <<"/","a","d","m","i","n","-","l","o","g","i","n">>
\* the values ADMIN_LOGIN_PATH is set to: unset, and three paths of the
\* operator's choosing
LoginPaths ==
    { AdminLoginPath,
      <<"/","a","d","m","i","n","/","l","o","g","i","n">>,
      <<"/","a","d","m","i","n">>,
      <<"/","a","d","m">> }

-----------------------------------------------------------------------------
(* Webhook authenticator: handleWebhook (handlers.go) *)

\* A raw request body is a sequence of JSON tokens
Tok(k, v) == [k |-> k, v |-> v]
LBrace == Tok("punct", "{")
RBrace == Tok("punct", "}")
LBracket == Tok("punct", "[")
RBracket == Tok("punct", "]")
Colon == Tok("punct", ":")
Comma == Tok("punct", ",")
JStr(s) == Tok("str", s)
JNum(n) == Tok("num", n)

BodyMain == <<LBrace, JStr("ref"), Colon, JStr("refs/heads/main"), RBrace>>
BodyMaster == <<LBrace, JStr("before"), Colon, JStr("0000"), Comma,
                JStr("ref"), Colon, JStr("refs/heads/master"), RBrace>>
BodyDevelop == <<LBrace, JStr("ref"), Colon, JStr("refs/heads/develop"), RBrace>>
BodyNoRef == <<LBrace, JStr("zen"), Colon, JStr("ping"), RBrace>>
BodyNumRef == <<LBrace, JStr("ref"), Colon, JNum("1"), RBrace>>
BodyTruncated == <<LBrace, JStr("ref"), Colon>>
BodyArray == <<LBracket, RBracket>>
BodySeq == <<BodyMain, BodyMaster, BodyDevelop, BodyNoRef, BodyNumRef, BodyTruncated, BodyArray>>
Bodies == {BodySeq[i] : i \in 1..Len(BodySeq)}

\* json.Unmarshal into map[string]interface{}: the members of one JSON object
\* with scalar values, or an error
RECURSIVE ParseMembers(_, _)
ParseMembers(toks, acc) ==
    IF Len(toks) >= 3 /\ toks[1].k = "str" /\ toks[2] = Colon /\ toks[3].k \in {"str", "num"}
    THEN LET got == Append(acc, [key |-> toks[1].v, val |-> toks[3]])
             rest == SubSeq(toks, 4, Len(toks))
         IN IF rest = <<>> THEN [ok |-> TRUE, members |-> got]
            ELSE IF rest[1] = Comma /\ Len(rest) > 1
                 THEN ParseMembers(Tail(rest), got)
                 ELSE [ok |-> FALSE, members |-> <<>>]
    ELSE [ok |-> FALSE, members |-> <<>>]
Unmarshal(body) ==
    IF Len(body) >= 2 /\ body[1] = LBrace /\ body[Len(body)] = RBrace
    THEN IF Len(body) = 2 THEN [ok |-> TRUE, members |-> <<>>]
         ELSE ParseMembers(SubSeq(body, 2, Len(body) - 1), <<>>)
    ELSE [ok |-> FALSE, members |-> <<>>]

\* payload["ref"].(string): the value and whether it is a string
RefOf(members) ==
    LET hits == {i \in 1..Len(members) : members[i].key = "ref"}
    IN IF hits = {} THEN [ok |-> FALSE, ref |-> ""]
       ELSE LET m == members[CHOOSE i \in hits : \A j \in hits : j <= i]
            IN IF m.val.k = "str" THEN [ok |-> TRUE, ref |-> m.val.v]
               ELSE [ok |-> FALSE, ref |-> ""]

\* hmac.New(sha256.New, secret) over the body: the digest, here one byte
\* wide and free of collisions on the keys and bodies modelled
KeyCode(key) == IF key = Secret THEN 1 ELSE 2
MsgCode(body) == CHOOSE i \in 1..Len(BodySeq) : BodySeq[i] = body
HmacSha256(key, body) == <<(37 * KeyCode(key) + 17 * MsgCode(body) + 4) % 256>>

\* hex.EncodeToString: two lower-case digits per byte
HexLower == <<"0","1","2","3","4","5","6","7","8","9","a","b","c","d","e","f">>
HexUpper == <<"0","1","2","3","4","5","6","7","8","9","A","B","C","D","E","F">>
RECURSIVE EncodeWith(_, _)
EncodeWith(digits, bytes) ==
    IF bytes = <<>> THEN <<>>
    ELSE <<digits[(bytes[1] \div 16) + 1], digits[(bytes[1] % 16) + 1]>>
            \o EncodeWith(digits, Tail(bytes))
EncodeToStringUpper(bytes) == EncodeWith(HexUpper, bytes)
EncodeToString(bytes) == EncodeWith(HexLower, bytes)

Sha256Eq == <<"s","h","a","2","5","6","=">>

\* expectedMAC := "sha256=" + hex.EncodeToString(mac.Sum(nil))
expectedMAC(body) == Sha256Eq \o EncodeToString(HmacSha256(Secret, body))

\* a comparison that accepts a signature of which only the digest's first digit agrees
EqualPrefixOnly(a, b) ==
    /\ Len(a) >= Len(Sha256Eq) + 1
    /\ Len(b) >= Len(Sha256Eq) + 1
    /\ SubSeq(a, 1, Len(Sha256Eq) + 1) = SubSeq(b, 1, Len(Sha256Eq) + 1)
\* hmac.Equal: equality of the two byte strings
hmacEqual(a, b) == a = b

\* ref != "refs/heads/main" alone
IsMainOnly(ref) == ref = "refs/heads/main"
\* ref is one of the branches the handler acts on
IsTrackedRef(ref) == ref = "refs/heads/main" \/ ref = "refs/heads/master"

\* a handler that answers every tracked push with 200
WebhookStatusAlwaysOK(signature, body, readOK) ==
    IF signature = <<>> THEN 400
    ELSE IF ~readOK THEN 500
    ELSE IF ~hmacEqual(signature, expectedMAC(body)) THEN 403
    ELSE IF ~Unmarshal(body).ok THEN 400
    ELSE 200
\* the status handleWebhook answers with; readOK is whether io.ReadAll
\* returned the body
WebhookStatus(signature, body, readOK) ==
    IF signature = <<>> THEN 400
    ELSE IF ~readOK THEN 500
    ELSE IF ~hmacEqual(signature, expectedMAC(body)) THEN 403
    ELSE IF ~Unmarshal(body).ok THEN 400
    ELSE LET r == RefOf(Unmarshal(body).members)
         IN IF ~r.ok \/ ~IsTrackedRef(r.ref) THEN 200
            ELSE 202

\* the signature headers a delivery of `body` may carry: none, the right
\* one, and near misses of it
SignedBy(key, body) == Sha256Eq \o EncodeToString(HmacSha256(key, body))
FlipLast(s) ==
    [i \in 1..Len(s) |-> IF i = Len(s) THEN (IF s[i] = "0" THEN "1" ELSE "0") ELSE s[i]]
HeadersFor(body) ==
    { <<>>,
      SignedBy(Secret, body),
      SignedBy(OtherSecret, body),
      SignedBy(Secret, IF body = BodyMain THEN BodyDevelop ELSE BodyMain),
      Sha256Eq \o EncodeToStringUpper(HmacSha256(Secret, body)),
      EncodeToString(HmacSha256(Secret, body)),
      FlipLast(SignedBy(Secret, body)),
      SignedBy(Secret, body) \o <<"0">> }

NoCall == [op |-> "none", path |-> <<>>, err |-> "nil", existed |-> FALSE,
           files |-> {}, failed |-> {}, rootok |-> TRUE, rows |-> <<>>]
NoReq == [hdr |-> <<>>, body |-> <<>>, readOK |-> FALSE, seg |-> <<>>, isAdmin |-> FALSE,
          fail |-> "none", url |-> <<>>, cookie |-> <<>>]
NoResp == [handler |-> "none", req |-> NoReq, status |-> 0, scheduled |-> 0, looked |-> <<>>]

\* the goroutine `go func() { PullRepo; Sync }` as handleWebhook starts it
NewOp == [pc |-> "pull", target |-> 0, todo |-> <<>>, seen |-> {}, status |-> 0]

\* handleWebhook: the response, and the goroutine when the push is to a
\* tracked branch; `cap` bounds the goroutines of a run
handleWebhook(signature, body, readOK, cap) ==
    LET status == WebhookStatus(signature, body, readOK) IN
    /\ phase = "serving"
    /\ status = 202 => Len(ops) < cap
    /\ ops' = IF status = 202 THEN Append(ops, [NewOp EXCEPT !.status = status]) ELSE ops
    /\ resp' = [handler |-> "webhook",
                req |-> [NoReq EXCEPT !.hdr = signature, !.body = body, !.readOK = readOK],
                status |-> status,
                scheduled |-> IF status = 202 THEN Len(ops) + 1 ELSE 0,
                looked |-> <<>>]
    /\ dbCall' = NoCall
    /\ UNCHANGED <<registry, hist, tree, cloned, head, phase, last, restarts, pending, cfg>>

-----------------------------------------------------------------------------
(* Repository syncer and the goroutine of a webhook: sync.go, handlers.go *)

\* the commits the remote repository goes through, oldest first
RemoteHistory == << {HomeMd},
                    {HomeMd, BlogPostMd, NotesTxt},
                    {BlogPostMd, NotesTxt} >>

\* a push to the remote repository
Push ==
    /\ head < Len(RemoteHistory)
    /\ head' = head + 1
    /\ UNCHANGED <<registry, dbCall, hist, tree, cloned, phase, ops, resp, last, restarts, pending, cfg>>

\* git's index.lock on the working copy is held by the pull that is checking out
IndexLocked == \E q \in 1..Len(ops) : ops[q].pc = "checkout"

\* PullRepo, `git pull` has fetched the remote head and starts to check it out
GitFetch(o) ==
    /\ phase = "serving"
    /\ ops[o].pc = "pull"
    /\ ~IndexLocked
    /\ ops' = [ops EXCEPT ![o].pc = "checkout", ![o].target = head]
    /\ UNCHANGED <<registry, dbCall, hist, tree, cloned, head, phase, resp, last, restarts, pending, cfg>>

\* `git pull` writes or removes one file of the working copy
GitCheckoutFile(o) ==
    /\ phase = "serving"
    /\ ops[o].pc = "checkout"
    /\ \E f \in Files :
          /\ (f \in tree) # (f \in RemoteHistory[ops[o].target])
          /\ tree' = IF f \in tree THEN tree \ {f} ELSE tree \cup {f}
    /\ UNCHANGED <<registry, dbCall, hist, cloned, head, phase, ops, resp, last, restarts, pending, cfg>>

\* a goroutine goes on to Sync although PullRepo returned an error
PullFailedGoesOn == "walk"
\* the goroutine returns when PullRepo returns an error
PullFailedGoesTo == "pullfailed"

\* `git pull` exits nonzero (network, authentication, a locked index):
\* PullRepo returns the error, the goroutine logs it and returns
GitPullFails(o) ==
    /\ phase = "serving"
    /\ ops[o].pc \in {"pull", "checkout"}
    /\ ops' = [ops EXCEPT ![o].pc = PullFailedGoesTo]
    /\ UNCHANGED <<registry, dbCall, hist, tree, cloned, head, phase, resp, last, restarts, pending, cfg>>

\* `git pull` exits 0 with the working copy at the fetched commit: PullRepo
\* returns nil and the goroutine calls Sync
GitPullDone(o) ==
    /\ phase = "serving"
    /\ ops[o].pc = "checkout"
    /\ tree = RemoteHistory[ops[o].target]
    /\ ops' = [ops EXCEPT ![o].pc = "walk"]
    /\ last' = [last EXCEPT !.pull = ops[o].target]
    /\ UNCHANGED <<registry, dbCall, hist, tree, cloned, head, phase, resp, restarts, pending, cfg>>

\* the entries os.ReadDir returns for a directory, in lexical order, less
\* the files the callback ignores: what is kept are the sub-directories and
\* the .md files
ReadDir(t, d) ==
    LET entries == {f \in t : DirOf(f) = d /\ IsMd(f)}
                   \cup (IF d = <<>> THEN {x \in Dirs : DirExists(t, x)} ELSE {})
        order == <<BlogDir, BlogPostMd, HomeMd, OldMdDir>>
    IN SelectSeq(order, LAMBDA e : e \in entries)

\* Sync, WalkDir reads the root directory
SyncWalkRoot(o) ==
    /\ phase = "serving"
    /\ ops[o].pc = "walk"
    /\ IF cloned
       THEN LET entries == ReadDir(tree, <<>>) IN
            /\ ops' = [ops EXCEPT ![o].pc = IF entries = <<>> THEN "done" ELSE "visit",
                                  ![o].todo = entries]
            /\ last' = IF entries = <<>> THEN [last EXCEPT !.walk = {}] ELSE last
       ELSE /\ ops' = [ops EXCEPT ![o].pc = "syncfailed"]
            /\ last' = last
    /\ UNCHANGED <<registry, dbCall, hist, tree, cloned, head, phase, resp, restarts, pending, cfg>>

\* Sync, WalkDir visits the next entry: a directory is read (an error ends
\* the walk and Sync), a .md file is upserted (an error is logged only)
SyncVisit(o) ==
    /\ phase = "serving"
    /\ ops[o].pc = "visit"
    /\ LET e == Head(ops[o].todo)
           rest == Tail(ops[o].todo)
       IN IF e \in Dirs
          THEN IF DirExists(tree, e)
               THEN LET todo == ReadDir(tree, e) \o rest IN
                    /\ ops' = [ops EXCEPT ![o].todo = todo,
                                          ![o].pc = IF todo = <<>> THEN "done" ELSE "visit"]
                    /\ last' = IF todo = <<>> THEN [last EXCEPT !.walk = ops[o].seen] ELSE last
                    /\ registry' = registry
               ELSE /\ ops' = [ops EXCEPT ![o].pc = "syncfailed"]
                    /\ last' = last
                    /\ registry' = registry
          ELSE \E dbok \in BOOLEAN :
                    /\ registry' = UpsertPage(registry, e, dbok).reg
                    /\ ops' = [ops EXCEPT ![o].todo = rest,
                                          ![o].seen = @ \cup {e},
                                          ![o].pc = IF rest = <<>> THEN "done" ELSE "visit"]
                    /\ last' = IF rest = <<>>
                               THEN [last EXCEPT !.walk = ops[o].seen \cup {e}]
                               ELSE last
    /\ UNCHANGED <<dbCall, hist, tree, cloned, head, phase, resp, restarts, pending, cfg>>

-----------------------------------------------------------------------------
(* Process startup: main.go *)

\* a main that goes on to Sync although CloneRepo returned an error
CloneFailedGoesOn == "sync"
\* log.Fatalf when CloneRepo returns an error
CloneFailedPhase == "dead"

\* CloneRepo: clone when the content directory is absent, pull otherwise;
\* an error is fatal
StartupCloneRepo ==
    /\ phase = "clone"
    /\ \E gitok \in BOOLEAN :
          LET cmd == IF cloned THEN "pull" ELSE "clone" IN
          IF gitok
          THEN /\ tree' = RemoteHistory[head]
               /\ cloned' = TRUE
               /\ phase' = "sync"
               /\ last' = [last EXCEPT !.pull = head, !.cmd = cmd, !.cmdok = TRUE]
          ELSE /\ phase' = CloneFailedPhase
               /\ last' = [last EXCEPT !.cmd = cmd, !.cmdok = FALSE]
               /\ UNCHANGED <<tree, cloned>>
    /\ UNCHANGED <<registry, dbCall, hist, head, ops, resp, restarts, pending, cfg>>

\* config.Load at the start of main: the login path is the value of
\* ADMIN_LOGIN_PATH in the environment the process is started in, taken as
\* it is
Load(loginPath) ==
    /\ phase = "clone"
    /\ cfg' = [AdminLoginPath |-> loginPath]
    /\ UNCHANGED <<registry, dbCall, hist, tree, cloned, head, phase, ops, resp, last, restarts, pending>>

\* the initial Sync, before the server listens; an error (the content
\* directory is missing or cannot be read) is fatal
StartupSync ==
    /\ phase = "sync"
    /\ \E failing \in SUBSET {f \in tree : IsMd(f)}, rootok \in BOOLEAN :
          LET r == Sync(registry, cloned /\ rootok, tree, failing) IN
          /\ registry' = r.reg
          /\ phase' = IF r.err = "nil" THEN "serving" ELSE "dead"
          /\ last' = IF r.err = "nil" THEN [last EXCEPT !.walk = {f \in tree : IsMd(f)}] ELSE last
    /\ UNCHANGED <<dbCall, hist, tree, cloned, head, ops, resp, restarts, pending, cfg>>

\* the process ends (a signal, a crash, log.Fatalf) and is started again:
\* its goroutines are gone, the database and the working copy remain
Restart ==
    /\ restarts < MaxRestarts
    /\ restarts' = restarts + 1
    /\ phase' = "clone"
    /\ ops' = <<>>
    /\ resp' = NoResp
    /\ pending' = EmptyBag
    /\ last' = [last EXCEPT !.cmd = "none", !.cmdok = FALSE]
    /\ UNCHANGED <<registry, dbCall, hist, tree, cloned, head, cfg>>

-----------------------------------------------------------------------------
(* Administration: handlers.go, middleware.go *)

\* the URL parameters chi has collected when the handler of
\* /admin/pages/{pagePath}/toggle runs: the wildcard of the /admin mount,
\* emptied by the mount, and the named segment
RouteParams(seg) == [keys |-> <<"*", "pagePath">>, values |-> <<<<>>, seg>>]

\* chi.URLParam: the value of the last parameter of that name, or ""
URLParam(params, key) ==
    LET hits == {i \in 1..Len(params.keys) : params.keys[i] = key}
    IN IF hits = {} THEN <<>>
       ELSE params.values[CHOOSE i \in hits : \A j \in hits : j <= i]

TogglePath(seg) ==
    <<"/","a","d","m","i","n","/","p","a","g","e","s","/">> \o seg \o <<"/","t","o","g","g","l","e">>
DashboardPath == <<"/","a","d","m","i","n","/","d","a","s","h","b","o","a","r","d">>
LogoutPath == <<"/","a","d","m","i","n","/","l","o","g","o","u","t">>

\* the cookies admin_session a request carries: none, the value the login
\* sets, the value the logout sets
LoggedIn == <<"logged_in">>
Cookies == { <<>>, LoggedIn, <<"">> }

\* AdminAuthMiddleware: isAdmin in the context of the request
AdminAuthMiddleware(cookie) == cookie = LoggedIn

\* RequireAdmin: whether the request reaches the handler
RequireAdmin(isAdmin, urlPath) ==
    IF HasPrefix(urlPath, cfg.AdminLoginPath) THEN TRUE
    ELSE isAdmin

\* the request of an /admin route as the middlewares leave it, and the
\* redirect to the login page RequireAdmin answers with
AdminRequest(urlPath, cookie) ==
    [NoReq EXCEPT !.url = urlPath, !.cookie = cookie, !.isAdmin = AdminAuthMiddleware(cookie)]
Redirected(req) == [handler |-> "RequireAdmin", req |-> req, status |-> 302, scheduled |-> 0,
                   looked |-> <<>>]

\* handleAdminToggleVisibility behind RequireAdmin
handleAdminToggleVisibility(seg, cookie) ==
    /\ phase = "serving"
    /\ LET req == [AdminRequest(TogglePath(seg), cookie) EXCEPT !.seg = seg]
           answer(st) == [handler |-> "toggle", req |-> req, status |-> st, scheduled |-> 0,
                         looked |-> <<>>]
           raw == URLParam(RouteParams(seg), "*")
           pagePath == IF HasSuffix(raw, DotMd) THEN raw ELSE raw \o DotMd
       IN IF ~RequireAdmin(req.isAdmin, req.url)
          THEN /\ resp' = Redirected(req)
               /\ registry' = registry
          ELSE IF raw = <<>>
               THEN /\ resp' = answer(400)
                    /\ registry' = registry
               ELSE \E dbok \in BOOLEAN :
                       LET r == ToggleVisibility(registry, pagePath, dbok) IN
                       /\ registry' = r.reg
                       /\ resp' = answer(IF r.err = "nil" THEN 200 ELSE 500)
    /\ dbCall' = NoCall
    /\ UNCHANGED <<hist, tree, cloned, head, phase, ops, last, restarts, pending, cfg>>

\* the steps of handleAdminDashboard that may fail: GetAllPages, the template
DashboardFailures == {"none", "query", "template"}

\* handleAdminDashboard behind RequireAdmin
handleAdminDashboard(cookie, fail) ==
    /\ phase = "serving"
    /\ LET req == AdminRequest(DashboardPath, cookie) IN
       IF ~RequireAdmin(req.isAdmin, req.url)
       THEN /\ fail = "none"
            /\ resp' = Redirected(req)
       ELSE resp' = [handler |-> "dashboard", req |-> [req EXCEPT !.fail = fail],
                     status |-> IF fail = "none" THEN 200 ELSE 500, scheduled |-> 0,
                     looked |-> <<>>]
    /\ dbCall' = NoCall
    /\ UNCHANGED <<registry, hist, tree, cloned, head, phase, ops, last, restarts, pending, cfg>>

\* handleAdminLogout behind RequireAdmin: the cookie is expired and the
\* browser sent to the login page
handleAdminLogout(cookie) ==
    /\ phase = "serving"
    /\ LET req == AdminRequest(LogoutPath, cookie) IN
       IF ~RequireAdmin(req.isAdmin, req.url)
       THEN resp' = Redirected(req)
       ELSE resp' = [handler |-> "logout", req |-> req, status |-> 302, scheduled |-> 0,
                   looked |-> <<>>]
    /\ dbCall' = NoCall
    /\ UNCHANGED <<registry, hist, tree, cloned, head, phase, ops, last, restarts, pending, cfg>>

\* the path segments an administrator's browser sends
Segments == { <<"h","o","m","e">>, HomeMd, <<"a","b","o","u","t">> }

-----------------------------------------------------------------------------
(* Page requests: handleHomepage, handlePageOrAsset, renderPage (handlers.go) *)

\* the URL paths requested (the wildcard of GET /*, "" for GET /)
ImgPng == <<"i","m","g","/","a",".","p","n","g">>
URLs == { <<>>, HomeMd, <<"b","l","o","g","/","p","o","s","t">>, <<"a","b","o","u","t">>, ImgPng }

\* handlePageOrAsset: a path under img/ or assets/ is served from the
\* content directory by http.ServeFile
IsAsset(url) ==
    \/ HasPrefix(url, <<"i","m","g","/">>)
    \/ HasPrefix(url, <<"a","s","s","e","t","s","/">>)
\* handlePageOrAsset: the page path renderPage is called with
PagePathOf(url) ==
    IF HasSuffix(url, DotMd) THEN url
    ELSE IF url = <<>> THEN HomeMd
    ELSE url \o DotMd

\* a page served as soon as it has a row
ServableIfExists(res) == res.err = "nil"
\* renderPage goes on unless `err != nil || !page.IsVisible`
Servable(res) == res.err = "nil" /\ res.page.is_visible

\* the steps of renderPage that may fail once the page is found
PageFailures == {"none", "read", "convert", "nav", "template"}

\* the goroutine `go s.db.IncrementVisitCount(page.Path)`, with the row as
\* renderPage has read it
NewVisit(page) == [path |-> page.path, count |-> page.visit_count]
PendingFor(path) ==
    BagCardinality([v \in {x \in BagToSet(pending) : x.path = path} |-> pending[v]])

\* GET / and GET /*: the status answered and the goroutine started. `fail`
\* is the step of renderPage that fails: reading the file, goldmark's
\* Convert, the query of the navigation, the execution of the template; a
\* request that does not get to renderPage's file has no such step
handlePageOrAsset(url, fail) ==
    /\ phase = "serving"
    /\ LET req == [NoReq EXCEPT !.seg = url, !.fail = fail]
           answer(rq, st, n) == [handler |-> "page", req |-> rq, status |-> st, scheduled |-> n,
                                 looked |-> IF IsAsset(url) THEN <<>> ELSE PagePathOf(url)]
           res == GetPageByPath(registry, PagePathOf(url))
       IN IF IsAsset(url)
          THEN /\ fail = "none"
               /\ resp' = answer(req, IF url \in tree THEN 200 ELSE 404, 0)
               /\ pending' = pending
          ELSE IF ~Servable(res)
          THEN /\ fail = "none"
               /\ resp' = answer(req, 404, 0)
               /\ pending' = pending
          ELSE IF res.page.path \notin tree \/ fail \in {"read", "convert"}
          THEN /\ resp' = answer(req, 500, 0)
               /\ pending' = pending
          ELSE /\ res.page.visit_count + PendingFor(res.page.path) < MaxVisits
               /\ pending' = pending (+) SetToBag({NewVisit(res.page)})
               /\ resp' = answer(req, IF fail = "none" THEN 200 ELSE 500, 1)
    /\ dbCall' = NoCall
    /\ UNCHANGED <<registry, hist, tree, cloned, head, phase, ops, last, restarts, cfg>>

\* the wildcard of the request a browser sends for a path of the
\* navigation: GET / for "/", GET /<path> otherwise
LinkTarget(display) == IF display = <<"/">> THEN <<>> ELSE display

\* a visitor follows the i-th link of the navigation renderPage has put in
\* the page
FollowNavLink(i, fail) ==
    /\ i \in 1..Len(GetVisiblePages(registry))
    /\ handlePageOrAsset(LinkTarget(GetVisiblePages(registry)[i].path), fail)

\* a write of the counter computed from the row renderPage had read
ApplyVisitStale(reg, v, dbok) ==
    IF dbok
    THEN {IF r.path = v.path THEN [r EXCEPT !.visit_count = v.count + 1] ELSE r : r \in reg}
    ELSE reg
\* the goroutine's call db.IncrementVisitCount(page.Path)
ApplyVisit(reg, v, dbok) == IncrementVisitCount(reg, v.path, dbok)

\* one of the goroutines started by renderPage runs
VisitGoroutine(v) ==
    /\ phase = "serving"
    /\ \E dbok \in BOOLEAN :
          /\ registry' = ApplyVisit(registry, v, dbok)
          /\ hist' = IF dbok /\ HasRow(registry, v.path) /\ v.path \in DOMAIN hist
                     THEN [hist EXCEPT ![v.path].visits = @ + 1]
                     ELSE hist
          /\ pending' = pending (-) SetToBag({v})
    /\ UNCHANGED <<dbCall, tree, cloned, head, phase, ops, resp, last, restarts, cfg>>

-----------------------------------------------------------------------------
(* The registry and the reconciler called directly, one statement at a time *)

\* the paths the registry is called with
RegPaths == {HomeMd, BlogPostMd}

\* the content trees a reconciliation is called on
Trees == { {}, {HomeMd}, {HomeMd, BlogPostMd, NotesTxt, ArchivedTxt}, {BlogPostMd, NotesTxt} }

NoHist == [p \in RegPaths |-> [upserts |-> 0, firstTitle |-> <<>>, toggled |-> FALSE,
                               visits |-> 0, odd |-> FALSE]]

Saturate(n) == IF n >= 2 THEN 2 ELSE n

\* hist after UpsertPage succeeded for the paths of `done`, the registry being `reg`
HistUpserted(done, reg) ==
    [p \in RegPaths |->
        IF p \in done
        THEN [hist[p] EXCEPT !.upserts = Saturate(@ + 1),
                             !.firstTitle = IF hist[p].upserts = 0 /\ HasRow(reg, p)
                                            THEN (CHOOSE x \in reg : x.path = p).title
                                            ELSE @]
        ELSE hist[p]]

CallUpsertPage(p) ==
    \E dbok \in BOOLEAN :
        LET r == UpsertPage(registry, p, dbok) IN
        /\ registry' = r.reg
        /\ dbCall' = [NoCall EXCEPT !.op = "UpsertPage", !.path = p, !.err = r.err,
                                    !.existed = HasRow(registry, p)]
        /\ hist' = IF r.err = "nil" THEN HistUpserted({p}, r.reg) ELSE hist
        /\ resp' = NoResp
        /\ UNCHANGED <<tree, cloned, head, phase, ops, last, restarts, pending, cfg>>

CallToggleVisibility(p) ==
    \E dbok \in BOOLEAN :
        LET r == ToggleVisibility(registry, p, dbok) IN
        /\ registry' = r.reg
        /\ dbCall' = [NoCall EXCEPT !.op = "ToggleVisibility", !.path = p, !.err = r.err,
                                    !.existed = HasRow(registry, p)]
        /\ hist' = IF r.err = "nil" /\ HasRow(registry, p)
                   THEN [hist EXCEPT ![p].toggled = TRUE, ![p].odd = ~@]
                   ELSE hist
        /\ resp' = NoResp
        /\ UNCHANGED <<tree, cloned, head, phase, ops, last, restarts, pending, cfg>>

CallIncrementVisitCount(p) ==
    \E dbok \in BOOLEAN :
        /\ \A r \in RowsOf(registry, p) : r.visit_count < MaxVisits
        /\ registry' = IncrementVisitCount(registry, p, dbok)
        /\ dbCall' = [NoCall EXCEPT !.op = "IncrementVisitCount", !.path = p,
                                    !.err = IF dbok THEN "nil" ELSE "exec",
                                    !.existed = HasRow(registry, p)]
        /\ hist' = IF dbok /\ HasRow(registry, p)
                   THEN [hist EXCEPT ![p].visits = @ + 1]
                   ELSE hist
        /\ resp' = NoResp
        /\ UNCHANGED <<tree, cloned, head, phase, ops, last, restarts, pending, cfg>>

\* a reconciliation of some content tree, as at a restart or after a pull;
\* rootok is whether the root directory could be read
CallSync(files) ==
    \E failing \in SUBSET {f \in files : IsMd(f)}, rootok \in BOOLEAN :
        LET r == Sync(registry, rootok, files, failing) IN
        /\ registry' = r.reg
        /\ dbCall' = [NoCall EXCEPT !.op = "Sync", !.err = r.err,
                                    !.files = files, !.failed = failing, !.rootok = rootok]
        /\ hist' = IF r.err = "nil"
                   THEN HistUpserted({p \in RegPaths : p \in files /\ IsMd(p) /\ p \notin failing},
                                     r.reg)
                   ELSE hist
        /\ resp' = NoResp
        /\ UNCHANGED <<tree, cloned, head, phase, ops, last, restarts, pending, cfg>>

\* the queries: they return rows and change nothing
CallGetAllPages ==
    /\ dbCall' = [NoCall EXCEPT !.op = "GetAllPages", !.rows = GetAllPages(registry)]
    /\ resp' = NoResp
    /\ UNCHANGED <<registry, hist, tree, cloned, head, phase, ops, last, restarts, pending, cfg>>

CallGetVisiblePages ==
    /\ dbCall' = [NoCall EXCEPT !.op = "GetVisiblePages", !.rows = GetVisiblePages(registry)]
    /\ resp' = NoResp
    /\ UNCHANGED <<registry, hist, tree, cloned, head, phase, ops, last, restarts, pending, cfg>>

CallGetPageByPath(p) ==
    LET r == GetPageByPath(registry, p) IN
    /\ dbCall' = [NoCall EXCEPT !.op = "GetPageByPath", !.path = p, !.err = r.err,
                                !.existed = HasRow(registry, p),
                                !.rows = IF r.err = "nil" THEN <<r.page>> ELSE <<>>]
    /\ resp' = NoResp
    /\ UNCHANGED <<registry, hist, tree, cloned, head, phase, ops, last, restarts, pending, cfg>>

-----------------------------------------------------------------------------
(* The server *)

NoLast == [pull |-> 0, walk |-> {}, cmd |-> "none", cmdok |-> FALSE]

\* main has opened the database (CREATE TABLE IF NOT EXISTS) and is about
\* to call CloneRepo; nothing has been cloned yet
Init ==
    /\ registry = {}
    /\ dbCall = NoCall
    /\ hist = NoHist
    /\ tree = {}
    /\ cloned = FALSE
    /\ head = 1
    /\ phase = "clone"
    /\ ops = <<>>
    /\ resp = NoResp
    /\ last = NoLast
    /\ restarts = 0
    /\ pending = EmptyBag
    /\ cfg = [AdminLoginPath |-> AdminLoginPath]

\* the deliveries sent to the server while it synchronises
SyncDeliveries ==
    { [hdr |-> SignedBy(Secret, BodyMain), body |-> BodyMain, readOK |-> TRUE],
      [hdr |-> SignedBy(Secret, BodyMaster), body |-> BodyMaster, readOK |-> TRUE],
      [hdr |-> SignedBy(Secret, BodyDevelop), body |-> BodyDevelop, readOK |-> TRUE],
      [hdr |-> SignedBy(OtherSecret, BodyMain), body |-> BodyMain, readOK |-> TRUE] }

\* the deliveries the handler rejects or ignores: no header, a signature
\* under another secret, a signed push to another branch
TurnedAway ==
    { [hdr |-> <<>>, body |-> BodyMain, readOK |-> TRUE],
      [hdr |-> SignedBy(OtherSecret, BodyMain), body |-> BodyMain, readOK |-> TRUE],
      [hdr |-> SignedBy(Secret, BodyDevelop), body |-> BodyDevelop, readOK |-> TRUE] }

\* one run of the process: startup, pushes to the remote, webhook
\* deliveries and the goroutines they start
Next ==
    \/ StartupCloneRepo
    \/ StartupSync
    \/ Push
    \/ \E d \in SyncDeliveries : handleWebhook(d.hdr, d.body, d.readOK, MaxOps)
    \/ \E o \in 1..Len(ops) : GitFetch(o)
    \/ \E o \in 1..Len(ops) : GitCheckoutFile(o)
    \/ \E o \in 1..Len(ops) : GitPullFails(o)
    \/ \E o \in 1..Len(ops) : GitPullDone(o)
    \/ \E o \in 1..Len(ops) : SyncWalkRoot(o)
    \/ \E o \in 1..Len(ops) : SyncVisit(o)

Spec == Init /\ [][Next]_vars

\* every delivery: each body with each header it may carry, read in full or not
Deliveries ==
    UNION {{[hdr |-> h, body |-> b, readOK |-> ok] : h \in HeadersFor(b), ok \in BOOLEAN} :
              b \in Bodies}

\* the webhook endpoint under every delivery, the remote at rest
NextWebhook ==
    \/ StartupCloneRepo
    \/ StartupSync
    \/ \E d \in Deliveries : handleWebhook(d.hdr, d.body, d.readOK, MaxDelivered)
    \/ \E o \in 1..Len(ops) : GitFetch(o)
    \/ \E o \in 1..Len(ops) : GitPullFails(o)
    \/ \E o \in 1..Len(ops) : GitPullDone(o)
    \/ \E o \in 1..Len(ops) : SyncWalkRoot(o)
    \/ \E o \in 1..Len(ops) : SyncVisit(o)

SpecWebhook == Init /\ [][NextWebhook]_vars

\* the server without webhook traffic: startups, pushes, restarts and the
\* requests of the administration surface
NextAdmin ==
    \/ StartupCloneRepo
    \/ StartupSync
    \/ Push
    \/ Restart
    \/ \E loginPath \in LoginPaths : Load(loginPath)
    \/ \E seg \in Segments, cookie \in Cookies : handleAdminToggleVisibility(seg, cookie)
    \/ \E cookie \in Cookies, fail \in DashboardFailures : handleAdminDashboard(cookie, fail)
    \/ \E cookie \in Cookies : handleAdminLogout(cookie)

SpecAdmin == Init /\ [][NextAdmin]_vars

\* the pages of a site started on one of the commits: page requests and
\* their goroutines, toggles made on the registry
NextPages ==
    \/ StartupCloneRepo
    \/ StartupSync
    \/ phase = "clone" /\ Push
    \/ \E url \in URLs, fail \in PageFailures : handlePageOrAsset(url, fail)
    \/ \E v \in BagToSet(pending) : VisitGoroutine(v)
    \/ \E p \in RegPaths : CallToggleVisibility(p)
    \/ \E p \in RegPaths : CallGetPageByPath(p)
    \/ CallGetAllPages
    \/ CallGetVisiblePages
    \/ \E d \in TurnedAway : handleWebhook(d.hdr, d.body, d.readOK, MaxDelivered)

SpecPages == Init /\ [][NextPages]_vars

\* Markdown files of content repositories, registered one by one beside
\* the home.md of the first commit
StoredPaths == {BlogPostMd, BlogHomeMd, MyFirstPostMd, ImgMyNotesMd}

\* the navigation of a site started on the first commit whose registry
\* comes to hold pages of these paths: rows created, shown and hidden, the
\* list queried, its links followed
NextNav ==
    \/ StartupCloneRepo
    \/ StartupSync
    \/ phase = "serving" /\ \E p \in StoredPaths : CallUpsertPage(p)
    \/ phase = "serving" /\ \E p \in RegPaths : CallToggleVisibility(p)
    \/ phase = "serving" /\ CallGetVisiblePages
    \/ \E i \in 1..(Cardinality(StoredPaths) + 1), fail \in PageFailures : FollowNavLink(i, fail)

SpecNav == Init /\ [][NextNav]_vars

\* the registry over the life of the site: startups and restarts on the
\* commits pushed, toggles and increments in between
NextStore ==
    \/ StartupCloneRepo
    \/ StartupSync
    \/ Push
    \/ Restart
    \/ \E p \in RegPaths : CallToggleVisibility(p)
    \/ \E p \in RegPaths : CallIncrementVisitCount(p)

SpecStore == Init /\ [][NextStore]_vars

\* the process from start to start: startups, pushes, one webhook
\* operation at a time, restarts
NextLife ==
    \/ StartupCloneRepo
    \/ StartupSync
    \/ Push
    \/ Restart
    \/ \E d \in SyncDeliveries : handleWebhook(d.hdr, d.body, d.readOK, MaxDelivered)
    \/ \E o \in 1..Len(ops) : GitFetch(o)
    \/ \E o \in 1..Len(ops) : GitCheckoutFile(o)
    \/ \E o \in 1..Len(ops) : GitPullFails(o)
    \/ \E o \in 1..Len(ops) : GitPullDone(o)
    \/ \E o \in 1..Len(ops) : SyncWalkRoot(o)
    \/ \E o \in 1..Len(ops) : SyncVisit(o)

SpecLife == Init /\ [][NextLife]_vars

\* the registry and the reconciler under direct calls
NextRegistry ==
    \/ \E p \in RegPaths : CallUpsertPage(p)
    \/ \E p \in RegPaths : CallToggleVisibility(p)
    \/ \E p \in RegPaths : CallIncrementVisitCount(p)
    \/ \E files \in Trees : CallSync(files)
    \/ CallGetAllPages
    \/ CallGetVisiblePages
    \/ \E p \in RegPaths : CallGetPageByPath(p)

SpecRegistry == Init /\ [][NextRegistry]_vars

-----------------------------------------------------------------------------
(* Properties *)

\* a goroutine is inside PullRepo / inside Sync
InPull(o) == ops[o].pc \in {"pull", "checkout"}
InWalk(o) == ops[o].pc \in {"walk", "visit"}
MdOf(files) == {f \in files : IsMd(f)}

\* C1: at most one Sync Operation is in progress against the working copy:
\* no two pulls overlap, and no pull runs while the reconciliation of
\* another operation is still walking the tree.
C1_SingleSyncInFlight ==
    \A o, q \in 1..Len(ops) :
        o # q => /\ ~(InPull(o) /\ InPull(q))
                 /\ ~(InPull(o) /\ InWalk(q))

\* C2: once the Sync Operations of two (or more) deliveries have all run to
\* completion, the working copy is the commit of the last pull, and the
\* reconciliation that finished last found exactly the .md files of that commit.
C2_FinalReconcileSeesLastPull ==
    (Len(ops) >= 2 /\ \A o \in 1..Len(ops) : ops[o].pc = "done")
        => /\ tree = RemoteHistory[last.pull]
           /\ last.walk = MdOf(RemoteHistory[last.pull])

\* the header the sender computes: sha256= and the lower-case hex HMAC of the body
ValidSignature(req) ==
    req.hdr = Sha256Eq \o EncodeToString(HmacSha256(Secret, req.body))
\* the bodies whose ref is refs/heads/main or refs/heads/master, those
\* that are no JSON object, and the other objects
TrackedBodies == {BodyMain, BodyMaster}
UnparsableBodies == {BodyTruncated, BodyArray}
UntrackedBodies == {BodyDevelop, BodyNoRef, BodyNumRef}
\* a step in which handleWebhook answered a delivery
WebhookStep ==
    /\ resp'.handler = "webhook"
    /\ resp' # resp \/ Len(ops') > Len(ops)

\* C3: a goroutine (pull, reconcile) is started only by a delivery whose
\* signature is exactly sha256= + lowercase hex HMAC of the body read, and
\* whose ref is main or master; any other delivery starts nothing and leaves
\* the registry and the working copy as they were.
C3_SyncOnlyForSignedTrackedPush ==
    [][ /\ Len(ops') > Len(ops) =>
              /\ WebhookStep
              /\ resp'.req.readOK
              /\ ValidSignature(resp'.req)
              /\ resp'.req.body \in TrackedBodies
        /\ (WebhookStep /\ ~(ValidSignature(resp'.req) /\ resp'.req.body \in TrackedBodies)) =>
              /\ ops' = ops
              /\ registry' = registry
              /\ tree' = tree
              /\ resp'.scheduled = 0 ]_vars

\* C3 witness: a delivery of a tracked push whose signature differs from the
\* right one in its last digit was turned away, after a signed one was synced
C3_Witness ==
    /\ resp.handler = "webhook"
    /\ resp.req.body = BodyMain
    /\ resp.req.hdr = FlipLast(SignedBy(Secret, BodyMain))
    /\ resp.status = 403
    /\ Len(ops) = 1
    /\ ops[1].pc = "done"

\* C4: for a delivery whose body was read, the status is 400 without a
\* signature header, 403 with a wrong one, 400 for a signed body that does
\* not parse, 200 for a signed push to an untracked ref, 202 for a signed
\* push to main or master; a goroutine is started exactly with a 202.
C4_WebhookStatusTable ==
    [][ WebhookStep =>
          LET req == resp'.req
              st == resp'.status
          IN /\ req.hdr = <<>> => st = 400
             /\ (req.hdr # <<>> /\ req.readOK /\ ~ValidSignature(req)) => st = 403
             /\ (req.readOK /\ ValidSignature(req) /\ req.body \in UnparsableBodies) => st = 400
             /\ (req.readOK /\ ValidSignature(req) /\ req.body \in UntrackedBodies) => st = 200
             /\ (req.readOK /\ ValidSignature(req) /\ req.body \in TrackedBodies) => st = 202
             /\ (Len(ops') = Len(ops) + 1) <=> (st = 202)
             /\ (resp'.scheduled # 0) <=> (st = 202) ]_vars

\* C4 witness: a signed body that does not parse was answered 400, after a
\* signed push had been answered 202 and its goroutine started
C4_Witness ==
    /\ resp.handler = "webhook"
    /\ resp.req.body = BodyTruncated
    /\ resp.req.readOK
    /\ ValidSignature(resp.req)
    /\ resp.status = 400
    /\ Len(ops) = 1
    /\ ops[1].status = 202

\* C5: a goroutine enters Sync only from a checkout that left the working
\* copy at the fetched commit; one whose pull failed stays where it is (no
\* retry, no reconciliation), has upserted nothing, and the failing step
\* leaves the registry alone.
C5_ReconcileOnlyAfterPull ==
    [][ \A o \in 1..Len(ops) :
          /\ (~InWalk(o) /\ ops'[o].pc \in {"walk", "visit", "done", "syncfailed"}
                /\ ops[o].pc \notin {"done", "syncfailed"}) =>
                    /\ ops[o].pc = "checkout"
                    /\ tree = RemoteHistory[ops[o].target]
                    /\ last'.pull = ops[o].target
          /\ ops[o].pc = "pullfailed" => ops'[o] = ops[o]
          /\ ops'[o].pc = "pullfailed" => /\ ops'[o].seen = {}
                                          /\ ops'[o].todo = <<>>
          /\ (ops[o].pc # "pullfailed" /\ ops'[o].pc = "pullfailed") => registry' = registry ]_vars

\* C5 witness: one operation's pull failed during checkout while another
\* operation pulled and reconciled
C5_Witness ==
    \E o, q \in 1..Len(ops) :
        /\ ops[o].pc = "pullfailed"
        /\ ops[o].target # 0
        /\ ops[q].pc = "done"
        /\ ops[q].seen # {}

\* C6: a signed push to a tracked branch is answered 202 in the step that
\* starts its goroutine, before the pull has done anything; the status given
\* for an operation is 202 and stays 202 whatever becomes of the operation.
C6_AcceptedWithoutWaiting ==
    [][ /\ (WebhookStep /\ resp'.req.readOK /\ ValidSignature(resp'.req)
               /\ resp'.req.body \in TrackedBodies) =>
              /\ resp'.status = 202
              /\ resp'.scheduled = Len(ops')
              /\ Len(ops') = Len(ops) + 1
              /\ ops'[Len(ops')].pc = "pull"
        /\ \A o \in 1..Len(ops') : ops'[o].status = 202
        /\ \A o \in 1..Len(ops) : ops'[o].status = ops[o].status ]_vars

\* C6 witness: the last response is the 202 of an operation whose pull has
\* failed since, while the other operation is still pulling
C6_Witness ==
    /\ resp.status = 202
    /\ resp.scheduled = 2
    /\ ops[2].pc = "pullfailed"
    /\ ops[2].status = 202
    /\ ops[1].pc = "pull"

\* C7: once UpsertPage has succeeded for a path, whatever the number of
\* calls and whatever ran between them, the path has exactly one row, its
\* title is the one derived at the first call, and it is visible unless a
\* toggle came in between.
C7_UpsertIdempotent ==
    \A p \in RegPaths :
        hist[p].upserts >= 1 =>
            /\ Cardinality(RowsOf(registry, p)) = 1
            /\ \A r \in RowsOf(registry, p) :
                  /\ r.title = hist[p].firstTitle
                  /\ r.title = pathToTitle(p)
                  /\ ~hist[p].toggled => r.is_visible

\* C7 witness: a path upserted twice, visited in between, never toggled
C7_Witness ==
    \E p \in RegPaths :
        /\ hist[p].upserts = 2
        /\ ~hist[p].toggled
        /\ dbCall.op = "UpsertPage"
        /\ dbCall.path = p
        /\ dbCall.existed
        /\ \E r \in RowsOf(registry, p) : r.visit_count > 0

\* C8: UpsertPage on a path that has a row changes no row at all, and a
\* reconciliation changes no row that exists: title, visibility and visit
\* count of a hidden, visited page are kept when its file is found again.
C8_UpsertExistingIsNoOp ==
    [][ /\ (dbCall'.op = "UpsertPage" /\ HasRow(registry, dbCall'.path)) =>
              registry' = registry
        /\ dbCall'.op = "Sync" => \A r \in registry : r \in registry' ]_vars

\* C8 witness: a reconciliation has just found again the file of a page
\* that is hidden and has been visited
C8_Witness ==
    /\ dbCall.op = "Sync"
    /\ hist[HomeMd].upserts = 2
    /\ \E r \in RowsOf(registry, HomeMd) : ~r.is_visible /\ r.visit_count > 0

\* C9: ToggleVisibility on a path without a row returns a not-found error
\* and leaves the registry as it was.
C9_ToggleAbsentIsNotFound ==
    [][ (dbCall'.op = "ToggleVisibility" /\ ~HasRow(registry, dbCall'.path)
            /\ dbCall'.err # "exec") =>
              /\ dbCall'.err = "notfound"
              /\ registry' = registry ]_vars

\* the path the toggle endpoint is meant to look up for a URL segment
WithMd(seg) == IF HasSuffix(seg, DotMd) THEN seg ELSE seg \o DotMd

\* C10: a toggle request of an administrator naming an existing page, with
\* or without .md, flips the visibility of exactly that page.
C10_ToggleEndpointFlipsPage ==
    [][ (resp'.handler = "toggle" /\ resp' # resp /\ resp'.req.isAdmin
            /\ HasRow(registry, WithMd(resp'.req.seg))) =>
              registry' = {IF r.path = WithMd(resp'.req.seg)
                           THEN [r EXCEPT !.is_visible = ~r.is_visible]
                           ELSE r : r \in registry} ]_vars

-----------------------------------------------------------------------------
(* Properties of the registry and the reconciler *)

\* the row of a path
RowOf(reg, p) == CHOOSE r \in reg : r.path = p
\* a name that ends in .md
EndsInMd(f) == Len(f) >= 3 /\ SubSeq(f, Len(f) - 2, Len(f)) = <<".", "m", "d">>

\* C11: a page is visible exactly when the number of toggles completed on
\* it since its creation is even, whatever upserts, increments and toggles
\* of other paths ran in between: two toggles restore the visibility, an odd
\* number negates it.
C11_ToggleInvolution ==
    \A p \in RegPaths :
        \A r \in RowsOf(registry, p) : r.is_visible = ~hist[p].odd

\* C11 witness: home.md toggled an even number of times, with an upsert and
\* a visit of it and an odd number of toggles of blog/post.md along the way
C11_Witness ==
    /\ dbCall.op = "ToggleVisibility"
    /\ dbCall.path = HomeMd
    /\ dbCall.err = "nil"
    /\ hist[HomeMd].toggled
    /\ ~hist[HomeMd].odd
    /\ hist[HomeMd].upserts = 2
    /\ hist[HomeMd].visits > 0
    /\ hist[BlogPostMd].odd
    /\ HasRow(registry, HomeMd)
    /\ RowOf(registry, HomeMd).is_visible

\* C12: a reconciliation that returns nil and had no failing upsert leaves
\* a row, listed by GetAllPages, for every file of the tree whose name ends
\* in .md, under its slash path relative to the root; and the rows a
\* reconciliation creates are rows of such files only, never of a directory
\* or of a file of another name.
C12_ReconcileRegistersMarkdown ==
    [][ dbCall'.op = "Sync" =>
          /\ (dbCall'.err = "nil" /\ dbCall'.failed = {}) =>
                \A f \in dbCall'.files :
                    EndsInMd(f) =>
                        /\ HasRow(registry', f)
                        /\ \E i \in 1..Len(GetAllPages(registry')) :
                              GetAllPages(registry')[i].path = f
          /\ \A r \in registry' :
                ~HasRow(registry, r.path) =>
                    /\ r.path \in dbCall'.files
                    /\ EndsInMd(r.path) ]_vars

\* C12 witness: a reconciliation of a tree with a file in a sub-directory,
\* a text file and a directory named old.md has added blog/post.md to a
\* registry that held home.md only
C12_Witness ==
    /\ dbCall.op = "Sync"
    /\ dbCall.err = "nil"
    /\ dbCall.failed = {}
    /\ dbCall.files = {HomeMd, BlogPostMd, NotesTxt, ArchivedTxt}
    /\ hist[HomeMd].upserts = 2
    /\ hist[BlogPostMd].upserts = 1
    /\ {r.path : r \in registry} = {HomeMd, BlogPostMd}

\* C15: GetVisiblePages returns one entry for every row whose is_visible is
\* true at the time of the query and no other entry, each under the display
\* form of its path and with its title.
C15_ListVisibleIsExact ==
    dbCall.op = "GetVisiblePages" =>
        LET out == dbCall.rows
            vis == {r \in registry : r.is_visible = TRUE}
        IN /\ Len(out) = Cardinality(vis)
           /\ \A i \in 1..Len(out) :
                 \E r \in vis : /\ out[i].path = DisplayPath(r.path)
                                /\ out[i].title = r.title
           /\ \A r \in vis : \E i \in 1..Len(out) : out[i].path = DisplayPath(r.path)

\* C15 witness: the list holds blog/post alone, home.md being hidden and
\* blog/post.md having been hidden and shown again
C15_Witness ==
    /\ dbCall.op = "GetVisiblePages"
    /\ dbCall.rows = << [path |-> <<"b","l","o","g","/","p","o","s","t">>,
                         title |-> <<"P","o","s","t">>] >>
    /\ hist[HomeMd].odd
    /\ hist[BlogPostMd].toggled
    /\ ~hist[BlogPostMd].odd
    /\ HasRow(registry, HomeMd)

\* C18: a reconciliation whose root could be read returns nil whatever
\* upserts failed, and every .md file whose upsert did not fail has a row
\* afterwards; a reconciliation whose root could not be read returns an
\* error and has upserted nothing.
C18_UpsertErrorDoesNotStopWalk ==
    [][ dbCall'.op = "Sync" =>
          /\ dbCall'.rootok =>
                /\ dbCall'.err = "nil"
                /\ \A f \in dbCall'.files :
                      (EndsInMd(f) /\ f \notin dbCall'.failed) => HasRow(registry', f)
          /\ ~dbCall'.rootok =>
                /\ dbCall'.err # "nil"
                /\ registry' = registry ]_vars

\* C18 witness: the upsert of blog/post.md, the first file of the walk, has
\* failed and home.md, visited after it, has its row
C18_Witness ==
    /\ dbCall.op = "Sync"
    /\ dbCall.err = "nil"
    /\ dbCall.failed = {BlogPostMd}
    /\ HomeMd \in dbCall.files
    /\ HasRow(registry, HomeMd)
    /\ ~HasRow(registry, BlogPostMd)

-----------------------------------------------------------------------------
(* Properties of the registry over the life of the site *)

\* C13: a path that has a row has a row after every step: startup
\* reconciliations on any commit, toggles, increments and restarts delete
\* nothing, whether or not the file is still in the working copy.
C13_RowsNeverDeleted ==
    [][ \A r \in registry : HasRow(registry', r.path) ]_vars

\* C13 witness: after a restart on a commit without home.md, the site serves
\* with the row of home.md, hidden and visited, still in the registry
C13_Witness ==
    /\ phase = "serving"
    /\ restarts = 1
    /\ last.cmd = "pull"
    /\ HomeMd \notin tree
    /\ HasRow(registry, HomeMd)
    /\ ~RowOf(registry, HomeMd).is_visible
    /\ RowOf(registry, HomeMd).visit_count > 0

\* C14: a row appears only in a step of a reconciliation, for a file of the
\* working copy whose name ends in .md; queries, increments, toggles, page
\* requests and deliveries turned away add none, so every path of the
\* registry is a .md file of a commit that was checked out.
C14_RowsOnlyFromReconcile ==
    [][ /\ \A q \in registry' :
              ~HasRow(registry, q.path) =>
                  /\ phase = "sync"
                  /\ phase' = "serving"
                  /\ q.path \in tree
                  /\ EndsInMd(q.path)
        /\ \A r \in registry :
              /\ EndsInMd(r.path)
              /\ \E k \in 1..head : r.path \in RemoteHistory[k] ]_vars

\* C14 witness: ToggleVisibility has just returned nil for blog/post.md,
\* which has no row and still has none, on a site that serves home.md and
\* has counted a visit of it
C14_Witness ==
    /\ phase = "serving"
    /\ dbCall.op = "ToggleVisibility"
    /\ dbCall.path = BlogPostMd
    /\ dbCall.err = "nil"
    /\ ~dbCall.existed
    /\ {r.path : r \in registry} = {HomeMd}
    /\ RowOf(registry, HomeMd).visit_count > 0

\* C16: a row is created with visit_count 0; no step lowers the count of a
\* row; the count of a row changes exactly in the steps in which an
\* IncrementVisitCount on its path succeeds, and then by 1.
C16_VisitCountMonotonic ==
    [][ /\ \A q \in registry' :
              /\ q.visit_count \in Nat
              /\ ~HasRow(registry, q.path) => q.visit_count = 0
        /\ \A r \in registry :
              \E q \in registry' : q.path = r.path /\ q.visit_count >= r.visit_count
        /\ \A p \in RegPaths :
              HasRow(registry, p) =>
                 \A r \in RowsOf(registry, p), q \in RowsOf(registry', p) :
                    /\ hist'[p].visits # hist[p].visits => q.visit_count = r.visit_count + 1
                    /\ hist'[p].visits = hist[p].visits => q.visit_count = r.visit_count ]_vars

\* C16 witness: home.md was counted twice, the second time after a restart,
\* and is hidden
C16_Witness ==
    /\ restarts = 1
    /\ phase = "serving"
    /\ dbCall.op = "IncrementVisitCount"
    /\ dbCall.path = HomeMd
    /\ dbCall.err = "nil"
    /\ HasRow(registry, HomeMd)
    /\ RowOf(registry, HomeMd).visit_count = 2
    /\ ~RowOf(registry, HomeMd).is_visible

\* C17: whatever the order in which the increment goroutines of page
\* requests and the toggles ran, the count of a page is the number of
\* increments that succeeded on it and the page is visible exactly when the
\* number of toggles that succeeded on it is even: no update is lost.
C17_NoLostUpdate ==
    \A p \in RegPaths :
        \A r \in RowsOf(registry, p) :
            /\ r.visit_count = hist[p].visits
            /\ r.is_visible = (~hist[p].odd)

\* C17 witness: a goroutine started when the count of home.md was 0 has not
\* run yet, while another one has raised the count to 1 and a toggle has
\* hidden the page
C17_Witness ==
    /\ BagIn([path |-> HomeMd, count |-> 0], pending)
    /\ HasRow(registry, HomeMd)
    /\ RowOf(registry, HomeMd).visit_count = 1
    /\ hist[HomeMd].odd

\* C19: the startup runs git clone when the content directory is absent
\* and git pull otherwise; the initial Sync starts only after that command
\* succeeded, the server answers requests and starts webhook goroutines only
\* after the initial Sync succeeded, a process whose startup failed never
\* serves, and no webhook goroutine exists while the startup runs.
C19_ServeOnlyAfterStartup ==
    [][ /\ (phase = "clone" /\ phase' # "clone") =>
              /\ last'.cmd = IF cloned THEN "pull" ELSE "clone"
              /\ phase' \in {"sync", "dead"}
              /\ phase' = "sync" <=> last'.cmdok
        /\ (phase # "sync" /\ phase' = "sync") =>
              /\ phase = "clone"
              /\ tree' = RemoteHistory[head]
        /\ (phase # "serving" /\ phase' = "serving") =>
              /\ phase = "sync"
              /\ last.cmdok
              /\ cloned
        /\ phase = "dead" => phase' \in {"dead", "clone"}
        /\ (phase' = "clone" /\ phase # "clone") => restarts' = restarts + 1
        /\ (resp' # resp /\ resp'.handler # "none") => phase = "serving"
        /\ Len(ops') > Len(ops) => phase = "serving"
        /\ phase' \in {"clone", "sync", "dead"} => ops' = <<>> ]_vars

\* C19 witness: started a second time, on an existing content directory,
\* the process has pulled, reconciled and then accepted a push delivery
\* whose goroutine is walking the tree
C19_Witness ==
    /\ restarts = 1
    /\ last.cmd = "pull"
    /\ last.cmdok
    /\ phase = "serving"
    /\ Len(ops) = 1
    /\ ops[1].pc = "visit"
    /\ resp.status = 202

\* a step in which handlePageOrAsset answered a request
PageStep ==
    /\ resp'.handler = "page"
    /\ registry' = registry
    /\ hist' = hist
    /\ resp' # resp \/ BagCardinality(pending') > BagCardinality(pending)

-----------------------------------------------------------------------------
(* Frame of the registry's mutations *)

\* C25: IncrementVisitCount changes at most the visit_count of the row of
\* its path, ToggleVisibility at most the is_visible of the row of its path;
\* every other field and every other row is as before, no row appears or
\* disappears, and a call on a path without a row changes nothing.
C25_MutationsTouchOwnField ==
    [][ /\ dbCall'.op = "IncrementVisitCount" =>
              /\ {q.path : q \in registry'} = {r.path : r \in registry}
              /\ Cardinality(registry') = Cardinality(registry)
              /\ \A r \in registry :
                    IF r.path = dbCall'.path
                    THEN \E q \in registry' : /\ q.path = r.path
                                              /\ q.title = r.title
                                              /\ q.is_visible = r.is_visible
                    ELSE r \in registry'
              /\ ~HasRow(registry, dbCall'.path) => registry' = registry
        /\ dbCall'.op = "ToggleVisibility" =>
              /\ {q.path : q \in registry'} = {r.path : r \in registry}
              /\ Cardinality(registry') = Cardinality(registry)
              /\ \A r \in registry :
                    IF r.path = dbCall'.path
                    THEN \E q \in registry' : /\ q.path = r.path
                                              /\ q.title = r.title
                                              /\ q.visit_count = r.visit_count
                    ELSE r \in registry'
              /\ ~HasRow(registry, dbCall'.path) => registry' = registry ]_vars

\* C25 witness: home.md has just been counted while blog/post.md, hidden
\* and counted before, kept its row as it was
C25_Witness ==
    /\ dbCall.op = "IncrementVisitCount"
    /\ dbCall.path = HomeMd
    /\ dbCall.err = "nil"
    /\ dbCall.existed
    /\ hist[HomeMd].visits = 1
    /\ HasRow(registry, BlogPostMd)
    /\ ~RowOf(registry, BlogPostMd).is_visible
    /\ RowOf(registry, BlogPostMd).visit_count = 2
    /\ RowOf(registry, HomeMd).visit_count = 1

-----------------------------------------------------------------------------
(* The administration surface *)

\* the routes mounted under /admin
IsAdminRoute(url) == HasPrefix(url, <<"/","a","d","m","i","n","/">>)

\* C23: whatever login path is configured, a request of a route under /admin
\* that does not carry the cookie admin_session = logged_in does not reach
\* the dashboard, toggle or logout handler: RequireAdmin answers it with the
\* redirect to the login page.
C23_AdminRoutesNeedSession ==
    (IsAdminRoute(resp.req.url) /\ resp.req.cookie # LoggedIn) =>
        /\ resp.handler = "RequireAdmin"
        /\ resp.status = 302

-----------------------------------------------------------------------------
(* Display paths, titles and the navigation *)

\* C21: in the list GetVisiblePages returns, the entry of home.md has the
\* path "/", the entry of any other stored path has that path without its
\* .md (blog/post.md gives blog/post), and no entry but that of home.md has
\* the path "/".
C21_DisplayPathOfStoredPath ==
    [][ (dbCall'.op = "GetVisiblePages" /\ registry' = registry) =>
          LET out == dbCall'.rows
              stored == SortByPath({r \in registry : r.is_visible = TRUE})
          IN /\ Len(out) = Len(stored)
             /\ \A i \in 1..Len(out) :
                   /\ stored[i].path = HomeMd => out[i].path = <<"/">>
                   /\ stored[i].path = BlogPostMd =>
                         out[i].path = <<"b","l","o","g","/","p","o","s","t">>
                   /\ stored[i].path # HomeMd =>
                         /\ out[i].path \o <<".","m","d">> = stored[i].path
                         /\ out[i].path # <<"/">> ]_vars

\* C21 witness: the list holds "/" for home.md next to blog/home and
\* blog/post
C21_Witness ==
    /\ dbCall.op = "GetVisiblePages"
    /\ \E i, j, k \in 1..Len(dbCall.rows) :
          /\ dbCall.rows[i].path = <<"/">>
          /\ dbCall.rows[j].path = <<"b","l","o","g","/","h","o","m","e">>
          /\ dbCall.rows[k].path = <<"b","l","o","g","/","p","o","s","t">>
    /\ {HomeMd, BlogHomeMd, BlogPostMd} \subseteq {r.path : r \in registry}

\* C22: the title of a row at its creation, by a reconciliation or a
\* single UpsertPage, is the last segment of the path without its
\* extension, every "-" and "_" replaced by a space and the first letter of
\* each word in upper case: blog/my-first-post.md gives "My First Post",
\* home.md gives "Home".
C22_TitleAtCreation ==
    [][ \A r \in registry' :
          ~HasRow(registry, r.path) =>
             /\ r.path = HomeMd => r.title = <<"H","o","m","e">>
             /\ r.path = BlogPostMd => r.title = <<"P","o","s","t">>
             /\ r.path = BlogHomeMd => r.title = <<"H","o","m","e">>
             /\ r.path = MyFirstPostMd =>
                   r.title = <<"M","y"," ","F","i","r","s","t"," ","P","o","s","t">>
             /\ r.path = ImgMyNotesMd => r.title = <<"M","y"," ","N","o","t","e","s">>
             /\ r.path \in {HomeMd, BlogPostMd, BlogHomeMd, MyFirstPostMd, ImgMyNotesMd} ]_vars

\* C22 witness: the row of blog/my-first-post.md has just been created,
\* those of home.md and img/my_notes.md before it
C22_Witness ==
    /\ dbCall.op = "UpsertPage"
    /\ dbCall.path = MyFirstPostMd
    /\ dbCall.err = "nil"
    /\ ~dbCall.existed
    /\ RowOf(registry, MyFirstPostMd).title = <<"M","y"," ","F","i","r","s","t"," ","P","o","s","t">>
    /\ HasRow(registry, HomeMd)
    /\ HasRow(registry, ImgMyNotesMd)

\* C24: for every visible page, the request of the display path
\* GetVisiblePages returns for it (GET / for "/") makes the page handler
\* look up the stored path of that page.
C24_NavLinkLooksUpItsPage ==
    resp.handler = "page" =>
        LET nav == GetVisiblePages(registry)
            stored == SortByPath({r \in registry : r.is_visible = TRUE})
        IN \A i \in 1..Len(nav) :
              resp.req.seg = LinkTarget(nav[i].path) => resp.looked = stored[i].path

=============================================================================
